---- MODULE Spec2Model ----
(***************************************************************************)
(* Drawing ingestion and analysis pipeline of the drawing management       *)
(* backend: DrawingService (create_drawing, _run_analysis,                 *)
(* _rename_drawing_file, update/approve/delete), the reanalyze endpoint,   *)
(* the FileManager's storage directories and the ClaudeClient retry        *)
(* policy.                                                                 *)
(*                                                                         *)
(* Spec        the upload worker thread together with the request handlers *)
(*             (approve, unapprove, update, delete, reanalyze) that the    *)
(*             server's thread pool runs concurrently with it.             *)
(* SpecUpload  the upload worker thread alone (no other request).          *)
(* FairSpec    Spec with weak fairness on the steps of the threads.        *)
(* SpecClient  one ClaudeClient.invoke_with_image call under tenacity's    *)
(*             retry decorator.                                            *)
(* SpecRename  SpecUpload with the files of other uploads on the disk.     *)
(* SpecNames   FileManager.generate_drawing_filename and the drawing       *)
(*             number correction applied to what they can be given.        *)
(* SpecProgress SpecUpload under each condition of the progress channel.   *)
(* SpecLocks   the LockManager's acquire_lock / release_lock coroutines    *)
(*             of several users on the event loop.                         *)
(* SpecRotation the rotation stage of _run_analysis on the stored file of  *)
(*             a one-page upload, with the file's rotation metadata and    *)
(*             content orientation, followed by the rest of the run.       *)
(***************************************************************************)
EXTENDS Integers, Sequences, FiniteSets, TLC

(* ---------------------------- bounds ----------------------------------- *)
\* pages of the uploaded document (one Drawing row per page)
MaxPages == 2
\* user requests (approve, unapprove, update, delete, reanalyze) issued
MaxRequests == 1
\* child rows each list-valued extraction stage returns
RowsPerStage == 1
\* longest drawing number given to generate_drawing_filename
MaxTextLen == 3
\* most characters that follow the first four of an extracted drawing number
MaxPad == 6
\* users that ask for locks, and drawings they ask them for
MaxUsers == 2
MaxLockDrawings == 2
\* the clock of the lock manager: seconds per step and the last instant
TickSeconds == 150
MaxTime == 600

(* ---------------------------- constants -------------------------------- *)
Drawings == 1..MaxPages
\* threads that execute _run_analysis: the upload worker (0) and the
\* handlers of the reanalyze requests
UploadThread == 0
Runs == 0..MaxRequests

StatusValues == {"pending", "analyzing", "unapproved", "approved", "failed"}
NoValue == "NULL"
Categories == {"buhin", "kumi"}

\* name FileManager.save_pdf gives the stored artifact (a generated uuid)
UuidName == "uuid"
\* a name a user types into DrawingUpdate.pdf_filename
TypedName == "typed"
NoFile == "None"

\* thumbnail_path create_drawing stores before any thumbnail exists
PendingThumb == <<"pending", 0>>

\* AI extraction passes in the order _run_analysis calls them
StageOrder == <<"rotation", "fields", "classification", "balloons", "revisions", "summary">>
ExtractionStages == {"fields", "classification", "balloons", "revisions", "summary"}
\* the stages whose result is a list of child rows, and the row kind of each
RowKind == [fields |-> "field", balloons |-> "balloon", revisions |-> "revision"]
ListStages == DOMAIN RowKind

\* what one AIAnalysisService call ends with: a parsed result, an
\* AWSAuthenticationError, another client/conversion error, or a response
\* _parse_json_response cannot parse
Outcomes == {"ok", "auth", "error", "malformed"}

VARIABLES
    rows,            \* Drawing rows present in the database
    status,          \* Drawing.status
    pdf_filename,    \* Drawing.pdf_filename
    thumbnail_path,  \* Drawing.thumbnail_path
    classification,  \* Drawing.classification
    analyzed_by,     \* run whose results summary/shape_features/analyzed_at hold (0: none)
    children,        \* ExtractedField / Balloon / Revision rows of each Drawing
    files,           \* names present in storage/drawings
    thumbs,          \* names present in storage/thumbnails
    run,             \* the _run_analysis invocation of each thread (its frame)
    nruns,           \* number of invocations started so far
    up,              \* the upload worker thread (create_drawing)
    requests,        \* user requests issued so far
    call,            \* the ClaudeClient call of SpecClient
    rot,             \* the rotation stage of one page's runs of SpecRotation
    fn,              \* the last call of a naming function of SpecNames
    lock,            \* the locks table and the lock requests of SpecLocks
    chan             \* condition of the progress channel (SpecProgress)

dbvars == <<rows, status, pdf_filename, thumbnail_path, classification, analyzed_by, children>>
fsvars == <<files, thumbs>>
pipevars == <<rows, status, pdf_filename, thumbnail_path, classification, analyzed_by,
              children, files, thumbs, run, nruns, up, requests, rot, fn, lock, chan>>
utilvars == <<fn, lock, chan>>
vars == <<rows, status, pdf_filename, thumbnail_path, classification, analyzed_by,
          children, files, thumbs, run, nruns, up, requests, call, rot, fn, lock, chan>>

(* ---------------------------- FileManager ------------------------------ *)
\* generate_drawing_filename: timestamp_classification_drawingnumber_author;
\* within one upload the timestamp and the author are the same for every
\* page, so the name varies with the classification (absent: "mibunrui")
generate_drawing_filename(cls) ==
    IF cls = NoValue THEN "ts_mibunrui" ELSE
    IF cls = "buhin" THEN "ts_buhin" ELSE "ts_kumi"

\* generate_thumbnail's file name: the pdf's stem, with the page suffix
ThumbName(stem, page) == <<stem, page>>

\* get_pdf_path: the path when the file exists, None otherwise
get_pdf_path(name) == IF name \in files THEN name ELSE NoFile

FileNames == {UuidName, TypedName} \cup {generate_drawing_filename(c) : c \in Categories \cup {NoValue}}

(* ---------------------------- runs ------------------------------------- *)
NoRun == [id |-> 0, d |-> 0, pc |-> "unused", path |-> NoFile, invoked |-> <<>>,
          authAt |-> "none", malformedAt |-> "none", failedAt |-> "none",
          failKind |-> "none", lastWrite |-> "none"]

\* between the commit of "analyzing" and the commit of the results
Analyzing(r) == run[r].pc \in {"rotation", "thumbnail", "fields", "classification",
                               "balloons", "revisions", "summary", "save"}
InProgress(r) == Analyzing(r) \/ run[r].pc = "rename"
Finished(r) == run[r].pc \in {"returned", "raised"}

\* a run that calls the classification before the field extraction
NextPc_ClassifyFirst ==
    [rotation |-> "thumbnail", thumbnail |-> "classification", classification |-> "fields",
     fields |-> "balloons", balloons |-> "revisions", revisions |-> "summary",
     summary |-> "save"]

\* lines 333-527: the step that follows each step of a run
NextPc == [rotation |-> "thumbnail", thumbnail |-> "fields", fields |-> "classification",
           classification |-> "balloons", balloons |-> "revisions",
           revisions |-> "summary", summary |-> "save"]

\* rows the results of the run with number id hold
RowsOf(id) == {<<id, RowKind[s], i>> : s \in ListStages, i \in 1..RowsPerStage}
\* rows the result of one pass holds
StageRows(id, s) ==
    IF s \in ListStages THEN {<<id, RowKind[s], i>> : i \in 1..RowsPerStage} ELSE {}
FieldRowsOf(id) == {<<id, "field", i>> : i \in 1..RowsPerStage}

ClientIdle == [pc |-> "idle", attempts |-> 0, history |-> <<>>, result |-> "none",
               slept |-> 0]

\* a stored pdf page: its rotation metadata (page.rotation), the orientation
\* of its content stream, and how often the file was written again
NoPdf == [meta |-> 0, content |-> 0, rewrites |-> 0]
RotIdle == [pc |-> "idle", pass |-> 0, file |-> NoPdf, before |-> NoPdf, ai |-> "none",
            angle |-> 0, conf |-> 0, applied |-> 0, io |-> "none", rotation |-> 0,
            fields |-> FALSE, status |-> "pending"]

\* no naming function has been called
FnIdle == [op |-> "none"]

\* users of the lock endpoints, drawings they lock
Users == 1..MaxUsers
LockDrawings == 1..MaxLockDrawings

\* LockManager.__init__ line 26: lock_timeout, in seconds
lock_timeout == 300

\* a handler of a lock endpoint that has not been called
CoIdle == [pc |-> "idle", op |-> "none", d |-> 0, result |-> <<"none">>]

\* the locks table is empty, the clock at 0, no handler is running
NoLocks == [rows |-> {}, now |-> 0, co |-> [u \in Users |-> CoIdle]]

Init ==
    /\ rows = {}
    /\ status = [d \in Drawings |-> NoValue]
    /\ pdf_filename = [d \in Drawings |-> NoValue]
    /\ thumbnail_path = [d \in Drawings |-> PendingThumb]
    /\ classification = [d \in Drawings |-> NoValue]
    /\ analyzed_by = [d \in Drawings |-> 0]
    /\ children = [d \in Drawings |-> {}]
    /\ files = {}
    /\ thumbs = {}
    /\ run = [r \in Runs |-> NoRun]
    /\ nruns = 0
    /\ up = [pc |-> "idle", pages |-> 0, page |-> 0, analysis |-> FALSE, unflushed |-> <<>>]
    /\ requests = 0
    /\ call = ClientIdle
    /\ rot = RotIdle
    /\ fn = FnIdle
    /\ lock = NoLocks
    /\ chan = "ok"

(* ---------------------------- _run_analysis ---------------------------- *)
\* Drawing.page_number of the row
page_number(d) == d - 1

\* status the except clause of _run_analysis commits
StatusOnException == "failed"

\* status the results block of _run_analysis commits
StatusOnSuccess == "unapproved"

\* what can be wrong with the progress channel: nothing; no event loop was
\* registered (set_main_event_loop never called); run_coroutine_threadsafe
\* raises (the loop is closed); the emit raises inside the loop
ChannelStates == {"ok", "no_loop", "schedule_fails", "emit_fails"}

\* a publication that takes the result of the emit from its future
send_progress_sync_AwaitsEmit(c) ==
    IF c = "no_loop" THEN "returned"
    ELSE IF c = "schedule_fails" THEN "returned"
    ELSE IF c = "emit_fails" THEN "raised" ELSE "returned"

\* _send_progress_sync lines 58-84: how the call ends. Without a loop it
\* logs a warning and returns (71-73); an exception of the scheduling is
\* caught and logged (83-84); the future of the scheduled emit is dropped,
\* so a failure of the emit stays in the loop; after 0.1 s the call returns
send_progress_sync(c) ==
    IF c = "no_loop" THEN "returned"
    ELSE IF c = "schedule_fails" THEN "returned"
    ELSE "returned"

\* outcome of one pass: the progress message that announces it, then the
\* AIAnalysisService call. pdf_page_to_image raises when the file is not at
\* the path the run took at its start, otherwise the call reaches the AI
\* Client and ends in one of Outcomes
AICallOutcomes(r) ==
    IF send_progress_sync(chan) # "returned" THEN {"publish"}
    ELSE IF run[r].path \in files THEN Outcomes ELSE {"nofile"}

Invoke(r, s, o) ==
    IF o \in {"nofile", "publish"} THEN run[r].invoked ELSE Append(run[r].invoked, s)

\* the session of the upload worker holds an assignment it has not flushed
\* for a row that another session has deleted since: its next commit raises
SessionStale(r) ==
    r = UploadThread /\ up.unflushed # <<>> /\ up.unflushed[1] \notin rows

\* lines 298-313: commit "analyzing", take the pdf path
StartRun(r, d) ==
    /\ run[r].pc = "unused"
    /\ nruns' = nruns + 1
    /\ IF d \in rows /\ ~SessionStale(r)
       THEN /\ status' = [status EXCEPT ![d] = "analyzing"]
            /\ run' = [run EXCEPT ![r] = [NoRun EXCEPT !.id = nruns + 1, !.d = d,
                                          !.pc = "rotation",
                                          !.path = get_pdf_path(pdf_filename[d]),
                                          !.lastWrite = "analyzing"]]
       ELSE /\ status' = status
            /\ run' = [run EXCEPT ![r] = [NoRun EXCEPT !.id = nruns + 1, !.d = d,
                                          !.pc = "raised",
                                          !.failedAt = "start", !.failKind = "rowgone"]]

\* an except clause that re-raises without recording the failure
ExceptCommit_NoStatus(r, s, kind, o, pending) ==
    /\ status' = status
    /\ children' = children
    /\ run' = [run EXCEPT ![r].pc = "raised", ![r].failedAt = s, ![r].failKind = kind,
                          ![r].invoked = Invoke(r, s, o)]

\* lines 543-547: the except clause commits the pending changes of the
\* session together with the status, then re-raises
ExceptCommit(r, s, kind, o, pending) ==
    LET d == run[r].d IN
    /\ status' = [status EXCEPT ![d] = StatusOnException]
    /\ children' = [children EXCEPT ![d] = @ \cup pending]
    /\ run' = [run EXCEPT ![r].pc = "raised", ![r].failedAt = s, ![r].failKind = kind,
                          ![r].invoked = Invoke(r, s, o),
                          ![r].authAt = IF o = "auth" THEN s ELSE @,
                          ![r].malformedAt = IF o = "malformed" THEN s ELSE @,
                          ![r].lastWrite = StatusOnException]

\* lines 333-382: AI rotation detection; every exception of the block is
\* logged as a warning and the run goes on
RotationStep(r) ==
    /\ run[r].pc = "rotation"
    /\ run[r].d \in rows
    /\ \E o \in AICallOutcomes(r) :
          run' = [run EXCEPT ![r].pc = NextPc["rotation"],
                             ![r].invoked = Invoke(r, "rotation", o),
                             ![r].authAt = IF o = "auth" THEN "rotation" ELSE "none"]
    /\ UNCHANGED <<dbvars, fsvars, nruns, up, requests, call, rot, utilvars>>

\* a thumbnail block without its try: the exception of generate_thumbnail
\* reaches the except clause of _run_analysis
ThumbnailCall_Propagates(raised) == IF raised THEN "raised" ELSE NextPc["thumbnail"]

\* lines 386-398: where the run stands after the thumbnail block; raised =
\* generate_thumbnail raised. The except of the block logs a warning and
\* the run goes on with the first extraction pass.
ThumbnailCall(raised) == NextPc["thumbnail"]

\* lines 384-398: thumbnail from the pdf, committed; a failure is a warning
ThumbnailStep(r) ==
    LET d == run[r].d
        t == ThumbName(run[r].path, page_number(d)) IN
    /\ run[r].pc = "thumbnail"
    /\ d \in rows
    /\ \E ok \in BOOLEAN :
          IF ok /\ run[r].path \in files
          THEN /\ thumbs' = thumbs \cup {t}
               /\ thumbnail_path' = [thumbnail_path EXCEPT ![d] = t]
               /\ run' = [run EXCEPT ![r].pc = ThumbnailCall(FALSE)]
          ELSE /\ UNCHANGED <<thumbs, thumbnail_path>>
               /\ run' = [run EXCEPT ![r].pc = ThumbnailCall(TRUE)]
    /\ UNCHANGED <<rows, status, pdf_filename, classification, analyzed_by, children,
                   files, nruns, up, requests, call, rot, utilvars>>

\* a pass that adds and commits its rows as soon as it has returned
StageCommit_EachStage(r, s) == StageRows(run[r].id, s)

\* lines 402-452: rows a pass writes to the database when it returns: the
\* results are kept in local variables, nothing is added to the session
\* before the last pass has returned
StageCommit(r, s) == {}

\* passes whose unparseable response is taken as an empty result
Fatal_EarlyPassesOnly(s, o) ==
    o # "ok" /\ ~(o = "malformed" /\ s \in {"balloons", "revisions", "summary"})

\* lines 402-452: the passes are called one after the other with no try
\* block around any of them, and every AIAnalysisService method raises
\* AIAnalysisException for whatever went wrong in it: each outcome but a
\* parsed result ends the run
Fatal(s, o) == o # "ok"

\* lines 402-452: one extraction pass returns its result
StageOk(r) ==
    LET s == run[r].pc
        d == run[r].d IN
    /\ s \in ExtractionStages
    /\ d \in rows
    /\ children' = [children EXCEPT ![d] = @ \cup StageCommit(r, s)]
    /\ \E o \in AICallOutcomes(r) :
          /\ ~Fatal(s, o)
          /\ run' = [run EXCEPT ![r].pc = NextPc[s], ![r].invoked = Invoke(r, s, o),
                                ![r].malformedAt = IF o = "malformed" THEN s ELSE @]
    /\ UNCHANGED <<rows, status, pdf_filename, thumbnail_path, classification,
                   analyzed_by, fsvars, nruns, up, requests, call, rot, utilvars>>

\* lines 402-452 with 543-547: an extraction pass raises
StageFail(r) ==
    LET s == run[r].pc IN
    /\ s \in ExtractionStages
    /\ run[r].d \in rows
    /\ \E o \in AICallOutcomes(r) : Fatal(s, o) /\ ExceptCommit(r, s, o, o, {})
    /\ UNCHANGED <<rows, pdf_filename, thumbnail_path, classification, analyzed_by,
                   fsvars, nruns, up, requests, call, rot, utilvars>>

\* lines 454-527: the results of all passes are added and committed at
\* once; category is what the classification pass returned
SaveOk(r, category) ==
    LET d == run[r].d IN
    /\ run[r].pc = "save"
    /\ d \in rows
    /\ children' = [children EXCEPT ![d] = @ \cup RowsOf(run[r].id)]
    /\ classification' = [classification EXCEPT ![d] = category]
    /\ analyzed_by' = [analyzed_by EXCEPT ![d] = run[r].id]
    /\ status' = [status EXCEPT ![d] = StatusOnSuccess]
    /\ run' = [run EXCEPT ![r].pc = "rename", ![r].lastWrite = StatusOnSuccess]
    /\ UNCHANGED <<rows, pdf_filename, thumbnail_path, fsvars, nruns, up, requests, call, rot, utilvars>>

\* lines 478-492 with 543-547: a balloon entry of unexpected shape raises
\* after the fields and the classification were put in the session; the
\* except clause's commit writes them with the status
SaveRaise(r, category) ==
    LET d == run[r].d IN
    /\ run[r].pc = "save"
    /\ d \in rows
    /\ classification' = [classification EXCEPT ![d] = category]
    /\ ExceptCommit(r, "save", "shape", "nofile", FieldRowsOf(run[r].id))
    /\ UNCHANGED <<rows, pdf_filename, thumbnail_path, analyzed_by, fsvars, nruns, up,
                   requests, call, rot, utilvars>>

\* the row was deleted by another session: the next statement that reaches
\* the database raises and the except clause's commit matches no row
RowGone(r) ==
    /\ Analyzing(r)
    /\ run[r].d \notin rows
    /\ run' = [run EXCEPT ![r].pc = "raised", ![r].failedAt = run[r].pc,
                          ![r].failKind = "rowgone"]
    /\ UNCHANGED <<dbvars, fsvars, nruns, up, requests, call, rot, utilvars>>

(* ---------------------------- _rename_drawing_file --------------------- *)
\* what can go wrong between the rename of the pdf and the commit: nothing,
\* or the rename of the thumbnail file raises OSError (line 606)
RenameFaults == {"none", "thumbnail"}

\* a rename that replaces a file already stored under the new name
rename_pdf_Overwrites(old, new) == old \in files

\* FileManager.rename_pdf 597-624: TRUE iff the file is renamed; a missing
\* source raises FileNotFoundError, an existing target FileExistsError, and
\* _rename_drawing_file logs either one and returns (622-625)
rename_pdf(old, new) == old \in files /\ new \notin files

\* a call of _rename_drawing_file that lets its exception reach the except
\* clause of _run_analysis
RenameCall_Propagates(raised) == IF raised THEN "raised" ELSE "returned"

\* lines 534-539: where the run stands after the call of
\* _rename_drawing_file; raised = an exception left the function (the row is
\* gone at db.refresh, the thumbnail rename failed). The call site logs a
\* warning and goes on.
RenameCall(raised) == "returned"

\* lines 549-628, called at 534-539.
\* The pdf is renamed first, the new name is assigned to the row, then the
\* thumbnail is renamed, then everything is committed. An OSError of the
\* thumbnail rename leaves the function before the commit (626-628) and is
\* logged by the caller (536-538): the assignment stays in the session,
\* unflushed, until the session commits again or is closed.
Rename(r) ==
    LET d == run[r].d
        old == pdf_filename[d]
        new == generate_drawing_filename(classification[d])
        oldThumb == thumbnail_path[d]
        newThumb == ThumbName(new, page_number(d))
        moveThumb == oldThumb \in thumbs /\ newThumb \notin thumbs IN
    /\ run[r].pc = "rename"
    /\ IF d \in rows /\ old # new /\ rename_pdf(old, new)
       THEN /\ files' = (files \ {old}) \cup {new}
            /\ \E fault \in RenameFaults :
                  IF fault = "thumbnail" /\ moveThumb
                  THEN /\ UNCHANGED <<pdf_filename, thumbs, thumbnail_path>>
                       /\ up' = IF r = UploadThread
                                THEN [up EXCEPT !.unflushed = <<d, new>>] ELSE up
                       /\ run' = [run EXCEPT ![r].pc = RenameCall(TRUE)]
                  ELSE /\ pdf_filename' = [pdf_filename EXCEPT ![d] = new]
                       /\ up' = up
                       /\ run' = [run EXCEPT ![r].pc = RenameCall(FALSE)]
                       /\ IF moveThumb
                          THEN /\ thumbs' = (thumbs \ {oldThumb}) \cup {newThumb}
                               /\ thumbnail_path' = [thumbnail_path EXCEPT ![d] = newThumb]
                          ELSE UNCHANGED <<thumbs, thumbnail_path>>
       ELSE /\ UNCHANGED <<files, pdf_filename, thumbs, thumbnail_path, up>>
            /\ run' = [run EXCEPT ![r].pc = RenameCall(d \notin rows)]
    /\ UNCHANGED <<rows, status, classification, analyzed_by, children, nruns,
                   requests, call, rot, utilvars>>

(* ---------------------------- create_drawing --------------------------- *)
\* lines 160-229: save the pdf under a generated name, one row per page
Upload(n, analysis) ==
    /\ up.pc = "idle"
    /\ files' = files \cup {UuidName}
    /\ rows' = 1..n
    /\ status' = [d \in Drawings |->
                    IF d <= n THEN (IF analysis THEN "pending" ELSE "unapproved")
                    ELSE status[d]]
    /\ pdf_filename' = [d \in Drawings |-> IF d <= n THEN UuidName ELSE pdf_filename[d]]
    /\ up' = [up EXCEPT !.pc = IF analysis THEN "init" ELSE "manual",
                        !.pages = n, !.page = 1, !.analysis = analysis]
    /\ UNCHANGED <<thumbnail_path, classification, analyzed_by, children, thumbs, run,
                   nruns, requests, call, rot, utilvars>>

\* lines 232-237: the AI service is constructed, its connection test passes
UpInitOk ==
    /\ up.pc = "init"
    /\ up' = [up EXCEPT !.pc = "next"]
    /\ UNCHANGED <<dbvars, fsvars, run, nruns, requests, call, rot, utilvars>>

\* lines 238-253 and 283-289: the connection test fails; the files and the
\* rows of the upload are deleted and DrawingServiceException is raised
UpInitFail ==
    /\ up.pc = "init"
    /\ files' = files \ {pdf_filename[d] : d \in 1..up.pages}
    /\ thumbs' = thumbs \ {thumbnail_path[d] : d \in 1..up.pages}
    /\ rows' = rows \ (1..up.pages)
    /\ status' = [d \in Drawings |-> IF d <= up.pages THEN NoValue ELSE status[d]]
    /\ pdf_filename' = [d \in Drawings |-> IF d <= up.pages THEN NoValue ELSE pdf_filename[d]]
    /\ thumbnail_path' = [d \in Drawings |->
                            IF d <= up.pages THEN PendingThumb ELSE thumbnail_path[d]]
    /\ classification' = [d \in Drawings |->
                            IF d <= up.pages THEN NoValue ELSE classification[d]]
    /\ analyzed_by' = [d \in Drawings |-> IF d <= up.pages THEN 0 ELSE analyzed_by[d]]
    /\ children' = [d \in Drawings |-> IF d <= up.pages THEN {} ELSE children[d]]
    /\ up' = [up EXCEPT !.pc = "raised"]
    /\ UNCHANGED <<run, nruns, requests, call, rot, utilvars>>

\* lines 256-258: the next page's _run_analysis is entered
UpStartRun ==
    /\ up.pc = "next"
    /\ up.page <= up.pages
    /\ StartRun(UploadThread, up.page)
    /\ pdf_filename' = IF up.unflushed # <<>> /\ up.page \in rows /\ ~SessionStale(UploadThread)
                       THEN [pdf_filename EXCEPT ![up.unflushed[1]] = up.unflushed[2]]
                       ELSE pdf_filename
    /\ up' = [up EXCEPT !.pc = "wait",
                        !.unflushed = IF up.page \in rows /\ ~SessionStale(UploadThread)
                                      THEN <<>> ELSE @]
    /\ UNCHANGED <<rows, thumbnail_path, classification, analyzed_by,
                   children, fsvars, requests, call, rot, utilvars>>

\* line 258 returns: on to the next page, line 281 after the last
UpRunReturned ==
    /\ up.pc = "wait"
    /\ run[UploadThread].pc = "returned"
    /\ run' = [run EXCEPT ![UploadThread] = NoRun]
    /\ up' = [up EXCEPT !.pc = IF up.page = up.pages THEN "returned" ELSE "next",
                        !.page = up.page + 1,
                        !.unflushed = IF up.page = up.pages THEN <<>> ELSE @]
    /\ UNCHANGED <<dbvars, fsvars, nruns, requests, call, rot, utilvars>>

\* lines 259-262: _run_analysis raised; the status is set to "failed" and
\* committed once more. When the row is gone that commit raises and
\* create_drawing ends at 283-289 without running the remaining pages.
UpRunRaised ==
    /\ up.pc = "wait"
    /\ run[UploadThread].pc = "raised"
    /\ run' = [run EXCEPT ![UploadThread] = NoRun]
    /\ IF up.page \in rows /\ ~SessionStale(UploadThread)
       THEN /\ status' = [status EXCEPT ![up.page] = "failed"]
            /\ up' = [up EXCEPT !.pc = IF up.page = up.pages THEN "returned" ELSE "next",
                                !.page = up.page + 1]
       ELSE /\ status' = status
            /\ up' = [up EXCEPT !.pc = "raised", !.unflushed = <<>>]
    /\ UNCHANGED <<rows, pdf_filename, thumbnail_path, classification, analyzed_by,
                   children, fsvars, nruns, requests, call, rot, utilvars>>

\* lines 264-278: upload without analysis, a thumbnail per page from the
\* saved pdf; a failure is a warning
ManualThumb ==
    LET d == up.page
        t == ThumbName(UuidName, page_number(d)) IN
    /\ up.pc = "manual"
    /\ \E ok \in BOOLEAN :
          IF ok /\ UuidName \in files
          THEN /\ thumbs' = thumbs \cup {t}
               /\ thumbnail_path' = IF d \in rows
                                    THEN [thumbnail_path EXCEPT ![d] = t]
                                    ELSE thumbnail_path
          ELSE UNCHANGED <<thumbs, thumbnail_path>>
    /\ up' = [up EXCEPT !.pc = IF up.page = up.pages THEN "returned" ELSE "manual",
                        !.page = up.page + 1]
    /\ UNCHANGED <<rows, status, pdf_filename, classification, analyzed_by, children,
                   files, run, nruns, requests, call, rot, utilvars>>

(* ---------------------------- request handlers ------------------------- *)
\* DrawingService.update_drawing: every key of the update is assigned
update_drawing(d, key, value) ==
    /\ d \in rows
    /\ status' = IF key = "status" THEN [status EXCEPT ![d] = value] ELSE status
    /\ pdf_filename' = IF key = "pdf_filename"
                       THEN [pdf_filename EXCEPT ![d] = value] ELSE pdf_filename
    /\ classification' = IF key = "classification"
                         THEN [classification EXCEPT ![d] = value] ELSE classification
    /\ requests' = requests + 1
    /\ UNCHANGED <<rows, thumbnail_path, analyzed_by, children, fsvars, run, nruns, up, call, rot, utilvars>>

\* values a DrawingUpdate body carries for each of its keys
UpdateValues == [status |-> StatusValues, pdf_filename |-> {TypedName},
                 classification |-> Categories]

\* PUT /{drawing_id}
Update(d) ==
    /\ requests < MaxRequests
    /\ \E key \in DOMAIN UpdateValues : \E value \in UpdateValues[key] :
          update_drawing(d, key, value)

\* PUT /{drawing_id}/approve
Approve(d) ==
    /\ requests < MaxRequests
    /\ update_drawing(d, "status", "approved")

\* PUT /{drawing_id}/unapprove
Unapprove(d) ==
    /\ requests < MaxRequests
    /\ update_drawing(d, "status", "unapproved")

\* DELETE /: the pdf and the thumbnail of every listed row are removed,
\* the rows are deleted with their children
Delete(S) ==
    /\ requests < MaxRequests
    /\ S # {}
    /\ S \subseteq rows
    /\ files' = files \ {pdf_filename[d] : d \in S}
    /\ thumbs' = thumbs \ {thumbnail_path[d] : d \in S}
    /\ rows' = rows \ S
    /\ status' = [d \in Drawings |-> IF d \in S THEN NoValue ELSE status[d]]
    /\ pdf_filename' = [d \in Drawings |-> IF d \in S THEN NoValue ELSE pdf_filename[d]]
    /\ thumbnail_path' = [d \in Drawings |-> IF d \in S THEN PendingThumb ELSE thumbnail_path[d]]
    /\ classification' = [d \in Drawings |-> IF d \in S THEN NoValue ELSE classification[d]]
    /\ analyzed_by' = [d \in Drawings |-> IF d \in S THEN 0 ELSE analyzed_by[d]]
    /\ children' = [d \in Drawings |-> IF d \in S THEN {} ELSE children[d]]
    /\ requests' = requests + 1
    /\ UNCHANGED <<run, nruns, up, call, rot, utilvars>>

\* POST /{drawing_id}/reanalyze: _run_analysis on the row as it is, on a
\* thread of the server's pool
Reanalyze(d) ==
    LET free == {r \in Runs \ {UploadThread} : run[r].pc = "unused"} IN
    /\ requests < MaxRequests
    /\ d \in rows
    /\ free # {}
    /\ StartRun(CHOOSE r \in free : \A q \in free : r <= q, d)
    /\ requests' = requests + 1
    /\ UNCHANGED <<rows, pdf_filename, thumbnail_path, classification, analyzed_by,
                   children, fsvars, up, call, rot, utilvars>>

\* reanalyze_drawing lines 296-301: _run_analysis returned or raised, the
\* handler ends
ReanalyzeEnd(r) ==
    /\ r # UploadThread
    /\ Finished(r)
    /\ run' = [run EXCEPT ![r] = NoRun]
    /\ UNCHANGED <<dbvars, fsvars, nruns, up, requests, call, rot, utilvars>>

(* ---------------------------- specifications --------------------------- *)
RunStep(r) ==
    \/ RotationStep(r)
    \/ ThumbnailStep(r)
    \/ StageOk(r)
    \/ StageFail(r)
    \/ \E c \in Categories : SaveOk(r, c)
    \/ \E c \in Categories : SaveRaise(r, c)
    \/ Rename(r)

UploadStep ==
    \/ \E n \in 1..MaxPages : \E analysis \in BOOLEAN : Upload(n, analysis)
    \/ UpInitOk
    \/ UpInitFail
    \/ UpStartRun
    \/ UpRunReturned
    \/ UpRunRaised
    \/ ManualThumb

NextUpload ==
    \/ UploadStep
    \/ \E r \in Runs : RunStep(r)

\* create_drawing and _run_analysis of another upload, finished before this
\* one begins: it was stored in the same second by the same author, got
\* classification c, and left its file and thumbnail under the canonical name
OtherUpload(c) ==
    LET name == generate_drawing_filename(c) IN
    /\ up.pc = "idle"
    /\ name \notin files
    /\ files' = files \cup {name}
    /\ thumbs' = thumbs \cup {ThumbName(name, 0)}
    /\ UNCHANGED <<dbvars, run, nruns, up, requests, call, rot, utilvars>>

\* the upload thread with files of other uploads on the disk
NextRename ==
    \/ NextUpload
    \/ \E c \in Categories \cup {NoValue} : OtherUpload(c)

SpecRename == Init /\ [][NextRename]_vars

RequestStep ==
    \/ \E d \in Drawings : Update(d)
    \/ \E d \in Drawings : Approve(d)
    \/ \E d \in Drawings : Unapprove(d)
    \/ \E S \in SUBSET Drawings : Delete(S)
    \/ \E d \in Drawings : Reanalyze(d)
    \/ \E r \in Runs : ReanalyzeEnd(r)
    \/ \E r \in Runs : RowGone(r)

Next ==
    \/ UploadStep
    \/ \E r \in Runs : RunStep(r)
    \/ RequestStep

SpecUpload == Init /\ [][NextUpload]_vars

Spec == Init /\ [][Next]_vars

\* every thread that can take a step eventually takes one: the worker
\* thread of the upload and the pool threads of the requests run to the end
\* of their handlers
FairSpec ==
    /\ Spec
    /\ WF_vars(UploadStep)
    /\ \A r \in Runs : WF_vars(RunStep(r))
    /\ \A r \in Runs : WF_vars(ReanalyzeEnd(r))
    /\ \A r \in Runs : WF_vars(RowGone(r))

TypeOK ==
    /\ rows \subseteq Drawings
    /\ \A d \in Drawings : status[d] \in StatusValues \cup {NoValue}
    /\ \A d \in Drawings : pdf_filename[d] \in FileNames \cup {NoValue}
    /\ files \subseteq FileNames
    /\ nruns \in 0..(MaxPages + MaxRequests)
    /\ requests \in 0..MaxRequests

(* ---------------------------- ClaudeClient ----------------------------- *)
\* error codes invoke_with_image takes for an expired or missing login
AWS_AUTH_ERROR_CODES == {"ExpiredTokenException", "ExpiredToken",
                         "UnrecognizedClientException", "InvalidIdentityToken",
                         "AccessDeniedException"}
\* error codes invoke_with_image re-raises for the retry decorator
ThrottleCodes == {"ThrottlingException", "TooManyRequestsException"}
\* botocore ClientError codes the model invocation can fail with
ClientErrorCodes == AWS_AUTH_ERROR_CODES \cup ThrottleCodes \cup {"ValidationException"}
\* botocore exceptions that are no ClientError
CredentialErrors == {"NoCredentialsError", "PartialCredentialsError"}
OtherErrors == {"EndpointConnectionError"}
\* what client.invoke_model does on one invocation
Responses == {"success"} \cup ClientErrorCodes \cup CredentialErrors \cup OtherErrors

\* stop_after_attempt(3)
MaxAttempts == 3
\* wait_exponential(multiplier=1, min=2, max=10)
WaitMultiplier == 1
WaitMin == 2
WaitMax == 10

RECURSIVE Pow2(_)
Pow2(n) == IF n = 0 THEN 1 ELSE 2 * Pow2(n - 1)

Max(a, b) == IF a >= b THEN a ELSE b
Min(a, b) == IF a <= b THEN a ELSE b

\* tenacity's wait_exponential after the attempt with the given number
wait_exponential(attempt) == Max(WaitMin, Min(WaitMultiplier * Pow2(attempt - 1), WaitMax))

\* except clauses that re-raise every ClientError as it is
Raised_EveryClientError(resp) ==
    IF resp \in CredentialErrors THEN "AWSAuthenticationError"
    ELSE IF resp \in ClientErrorCodes THEN "ClientError"
    ELSE "ClaudeClientError"

\* the except clauses of invoke_with_image: the exception that leaves the
\* function body for a failed invocation
Raised(resp) ==
    IF resp \in CredentialErrors THEN "AWSAuthenticationError"
    ELSE IF resp \in ClientErrorCodes
         THEN IF resp \in AWS_AUTH_ERROR_CODES THEN "AWSAuthenticationError"
              ELSE IF resp \in ThrottleCodes THEN "ClientError"
              ELSE "ClaudeClientError"
    ELSE "ClaudeClientError"

\* retry_if_exception_type(ClientError)
RetryOn(exc) == exc = "ClientError"

\* a decorator that stops one attempt later
StopAfter_OneMore(attempt) == attempt >= MaxAttempts + 1

\* stop_after_attempt(3)
StopAfter(attempt) == attempt >= MaxAttempts

\* the decorated invoke_with_image is called
ClientCall ==
    /\ call.pc = "idle"
    /\ call' = [call EXCEPT !.pc = "attempt"]
    /\ UNCHANGED pipevars

\* line 293: client.invoke_model returns or raises
ModelResponds(resp) ==
    /\ call.pc = "attempt"
    /\ call' = [call EXCEPT !.pc = "handle", !.attempts = @ + 1,
                            !.history = Append(@, resp)]
    /\ UNCHANGED pipevars

\* lines 295-343 under the decorator of 231-236: the result is returned,
\* or the exception of the body is retried or leaves the call
Handle ==
    LET resp == call.history[Len(call.history)]
        exc == Raised(resp) IN
    /\ call.pc = "handle"
    /\ IF resp = "success"
       THEN call' = [call EXCEPT !.pc = "returned", !.result = "result"]
       ELSE IF RetryOn(exc) /\ ~StopAfter(call.attempts)
            THEN call' = [call EXCEPT !.pc = "sleep"]
            ELSE call' = [call EXCEPT !.pc = "raised", !.result = exc]
    /\ UNCHANGED pipevars

\* the decorator sleeps, then calls the body again
Backoff ==
    /\ call.pc = "sleep"
    /\ call' = [call EXCEPT !.pc = "attempt",
                            !.slept = @ + wait_exponential(call.attempts)]
    /\ UNCHANGED pipevars

NextClient ==
    \/ ClientCall
    \/ \E resp \in Responses : ModelResponds(resp)
    \/ Handle
    \/ Backoff

SpecClient == Init /\ [][NextClient]_vars

(* ---------------------------- Drawing.status --------------------------- *)
\* the edges of the status state machine
DocumentedEdges ==
    {<<"pending", "analyzing">>, <<"analyzing", "unapproved">>, <<"analyzing", "failed">>,
     <<"unapproved", "approved">>, <<"approved", "unapproved">>}
    \cup {<<s, "pending">> : s \in StatusValues}

\* C1: every change of the status of a Drawing row follows a documented
\* edge: pending -> analyzing, analyzing -> unapproved, analyzing -> failed,
\* unapproved <-> approved, or any state -> pending.
StatusFollowsDocumentedEdges ==
    [][\A d \in Drawings :
          (d \in rows /\ d \in rows' /\ status'[d] # status[d])
             => <<status[d], status'[d]>> \in DocumentedEdges]_vars

ChildrenOfLatestRunOnly ==
    \A d \in rows : analyzed_by[d] # 0 => children[d] = RowsOf(analyzed_by[d])

\* C4: after an AI stage of a run failed with an authentication error no
\* later AI stage of the run is invoked and the run does not end with its
\* results committed.
AuthErrorAbortsRun ==
    \A r \in Runs :
       run[r].authAt # "none"
          => /\ run[r].invoked[Len(run[r].invoked)] = run[r].authAt
             /\ run[r].pc \notin {"rename", "returned"}

\* passes _run_analysis runs before the pass s
StagesBefore(s) ==
    {t \in ExtractionStages :
        \E i, j \in 1..Len(StageOrder) : StageOrder[i] = t /\ StageOrder[j] = s /\ i < j}

StoredFileExists ==
    \A d \in rows :
       status[d] \in {"pending", "analyzing", "unapproved", "approved"}
          => pdf_filename[d] \in files

\* C7: a run of one page of an upload never fails because of what the run
\* of another page did: it fails only on an outcome of its own calls.
PageRunsIndependent ==
    \A r \in Runs : run[r].pc = "raised" => run[r].failKind # "nofile"

\* C8: at most one run is in progress for a Drawing at any time.
OneRunPerDrawing ==
    \A r1, r2 \in Runs :
       (r1 # r2 /\ InProgress(r1) /\ InProgress(r2)) => run[r1].d # run[r2].d

(* ---------------------------- invoke_with_image ------------------------ *)
AllThrottled(h) == \A i \in 1..Len(h) : h[i] \in ThrottleCodes
AuthClass(resp) == resp \in AWS_AUTH_ERROR_CODES \cup CredentialErrors

\* C9: a call whose invocations are all throttled makes exactly 3
\* invocations and then ends with the error; a success is the last
\* invocation of its call, is one of the first three, and is returned.
ThrottledCallStopsAtThree ==
    /\ AllThrottled(call.history) => call.attempts <= 3
    /\ (AllThrottled(call.history) /\ call.attempts = 3) => call.pc \in {"handle", "raised"}
    /\ (AllThrottled(call.history) /\ call.pc = "raised")
          => (call.attempts = 3 /\ call.result = "ClientError")
    /\ \A i \in 1..Len(call.history) :
          call.history[i] = "success"
             => /\ i = Len(call.history)
                /\ i <= 3
                /\ call.pc \in {"handle", "returned"}
                /\ call.pc = "returned" => call.result = "result"

\* a call that ended with the error after three throttled invocations
ThrottledThreeTimes ==
    /\ call.pc = "raised"
    /\ Len(call.history) = 3
    /\ AllThrottled(call.history)

\* C10: an invocation that fails with an authentication-class error is the
\* last invocation of its call, and the call ends with
\* AWSAuthenticationError; failing so on the first invocation, the model
\* is invoked once.
AuthErrorNotRetried ==
    \A i \in 1..Len(call.history) :
       AuthClass(call.history[i])
          => /\ i = Len(call.history)
             /\ call.pc \in {"handle", "raised"}
             /\ call.pc = "raised" => call.result = "AWSAuthenticationError"

\* a call ended by an expired token on its first invocation
AuthErrorOnFirstInvocation ==
    /\ call.pc = "raised"
    /\ call.attempts = 1
    /\ call.history = <<"ExpiredTokenException">>
    /\ call.result = "AWSAuthenticationError"

\* failures of one invocation that pass by themselves: the service throttles
\* the request, or the endpoint cannot be reached
TransientFailures == ThrottleCodes \cup OtherErrors

\* C11: a call ends with the error of a transient failure (rate limiting or
\* a network failure) only after 3 invocations.
TransientFailureRetried ==
    (call.pc = "raised" /\ call.history[Len(call.history)] \in TransientFailures)
       => call.attempts = 3

(* ---------------------------- rotation stage --------------------------- *)
\* runs of _run_analysis over the same stored file
MaxNormalizations == 2

\* values of page.rotation
Angles == {0, 90, 180, 270}
\* orientations of the content stream of the uploaded page
ContentAngles == {0, 90}
\* "rotation" values of a detect_rotation result: the parsed JSON value is
\* passed on as it is
AiAngles == Angles \cup {360}
\* "confidence" values of a detect_rotation result
Confidences == {0, 69, 70, 100}
\* _run_analysis line 350 (and auto_correct_rotation line 338)
ConfidenceThreshold == 70

\* FileManager.flatten_pdf: the metadata rotation is drawn into the content
\* and reset; a file whose metadata rotation is 0 is left as it is
flatten_pdf(f) ==
    IF f.meta = 0 THEN f
    ELSE [meta |-> 0, content |-> (f.content + f.meta) % 360, rewrites |-> f.rewrites + 1]

\* an angle that is taken as it is
NormalizeAngle_AsGiven(angle) == angle

\* rotate_pdf_content line 194
NormalizeAngle(angle) == angle % 360

\* FileManager.rotate_pdf_content: flatten, then redraw every page rotated
rotate_pdf_content(f, angle) ==
    LET g == flatten_pdf(f) IN
    IF NormalizeAngle(angle) = 0 THEN g
    ELSE [g EXCEPT !.content = (@ + NormalizeAngle(angle)) % 360, !.rewrites = @ + 1]

\* _run_analysis line 350: the content is rotated
RotationNeeded(angle, conf) == angle # 0 /\ conf >= ConfidenceThreshold

\* FileManager.auto_correct_rotation lines 334-347: the angle the file
\* manager's rule adopts from the metadata and the AI result
final_rotation(meta, ai, angle, conf) ==
    IF ai = "ok" /\ conf >= ConfidenceThreshold THEN angle ELSE meta

\* create_drawing lines 178-229 for one page: the pdf is stored as uploaded
\* (save_pdf with auto_rotate=False), the first run begins
RotStore(m, c) ==
    /\ rot.pc = "idle"
    /\ rot' = [rot EXCEPT !.pc = "detect", !.pass = 1,
                          !.file = [meta |-> m, content |-> c, rewrites |-> 0],
                          !.before = [meta |-> m, content |-> c, rewrites |-> 0],
                          !.status = "analyzing"]
    /\ UNCHANGED <<dbvars, fsvars, run, nruns, up, requests, call, utilvars>>

\* lines 340-350 and 372-374: detect_rotation returns a result
RotDetectOk(angle, conf) ==
    /\ rot.pc = "detect"
    /\ rot' = [rot EXCEPT !.ai = "ok", !.angle = angle, !.conf = conf,
                          !.pc = IF RotationNeeded(angle, conf) THEN "rotate" ELSE "extract",
                          !.applied = IF RotationNeeded(angle, conf) THEN angle ELSE 0,
                          !.rotation = 0]
    /\ UNCHANGED <<dbvars, fsvars, run, nruns, up, requests, call, utilvars>>

\* lines 341 and 375-379: detect_rotation raises; the exception is logged
\* and the run goes on without a rotation
RotDetectFail ==
    /\ rot.pc = "detect"
    /\ rot' = [rot EXCEPT !.ai = "failed", !.pc = "extract", !.applied = 0, !.rotation = 0]
    /\ UNCHANGED <<dbvars, fsvars, run, nruns, up, requests, call, utilvars>>

\* lines 351-374: rotate_pdf_content rewrites the file
RotRotateOk ==
    /\ rot.pc = "rotate"
    /\ rot' = [rot EXCEPT !.pc = "extract", !.io = "ok",
                          !.file = rotate_pdf_content(rot.file, rot.angle), !.rotation = 0]
    /\ UNCHANGED <<dbvars, fsvars, run, nruns, up, requests, call, utilvars>>

\* lines 352-360 with 375-379: reading or writing the file fails inside
\* flatten_pdf (nothing written) or after it (the file is flattened only);
\* the except clause of the rotation block logs the exception
RotRotateFail(flattened) ==
    /\ rot.pc = "rotate"
    /\ flattened => NormalizeAngle(rot.angle) # 0
    /\ rot' = [rot EXCEPT !.pc = "extract", !.io = "failed",
                          !.file = IF flattened THEN flatten_pdf(rot.file) ELSE rot.file,
                          !.rotation = 0]
    /\ UNCHANGED <<dbvars, fsvars, run, nruns, up, requests, call, utilvars>>

\* lines 384-547: thumbnail, the extraction passes from the field
\* extraction on, and the commit of the results or of the failure
RotExtract(ok) ==
    /\ rot.pc = "extract"
    /\ rot' = [rot EXCEPT !.pc = "finished", !.fields = TRUE,
                          !.status = IF ok THEN StatusOnSuccess ELSE StatusOnException]
    /\ UNCHANGED <<dbvars, fsvars, run, nruns, up, requests, call, utilvars>>

\* reanalyze_drawing: another run over the file as the last run left it
RotAgain ==
    /\ rot.pc = "finished"
    /\ rot.pass < MaxNormalizations
    /\ rot' = [RotIdle EXCEPT !.pc = "detect", !.pass = rot.pass + 1, !.file = rot.file,
                              !.before = rot.file, !.status = "analyzing"]
    /\ UNCHANGED <<dbvars, fsvars, run, nruns, up, requests, call, utilvars>>

NextRotation ==
    \/ \E m \in Angles : \E c \in ContentAngles : RotStore(m, c)
    \/ \E angle \in AiAngles : \E conf \in Confidences : RotDetectOk(angle, conf)
    \/ RotDetectFail
    \/ RotRotateOk
    \/ \E flattened \in BOOLEAN : RotRotateFail(flattened)
    \/ \E ok \in BOOLEAN : RotExtract(ok)
    \/ RotAgain

SpecRotation == Init /\ [][NextRotation]_vars

\* the rotation stage of the current run is over
RotationStageDone == rot.pc \in {"extract", "finished"}

\* C12: with an AI result whose angle is one of 0, 90, 180, 270, the angle
\* the rotation step applies to the page is the AI angle when the
\* confidence is at least 70 and the page's metadata angle below 70.
AppliesAdoptedAngle ==
    (rot.pc \in {"rotate", "extract", "finished"} /\ rot.ai = "ok" /\ rot.angle \in Angles)
       => rot.applied = final_rotation(rot.before.meta, rot.ai, rot.angle, rot.conf)

\* C13: when the AI orientation call fails for a page whose metadata
\* rotation is 90, the stage leaves the file with metadata 0 and the
\* content flattened to the displayed orientation, the field extraction is
\* invoked, and the run ends unapproved or (extraction failing) failed.
FallsBackToMetadata ==
    (RotationStageDone /\ rot.ai = "failed" /\ rot.before.meta = 90)
       => /\ rot.file.meta = 0
          /\ rot.file.content = (rot.before.content + 90) % 360
          /\ rot.pc = "finished" => rot.fields

\* C14: after an I/O failure of flattening or rotating the file the field
\* extraction is not invoked and the run ends failed.
RotateFailureIsFatal ==
    rot.io = "failed" => (~rot.fields /\ (rot.pc = "finished" => rot.status = "failed"))

\* C15: when the page's metadata rotation is 0 and the detected angle is 0
\* or a multiple of 360, the rotation stage leaves the stored file as it
\* was (not rewritten) and Drawing.rotation is 0; so for a second run over
\* a file an earlier run has normalized.
NormalizedPageUntouched ==
    (RotationStageDone /\ rot.ai = "ok" /\ rot.before.meta = 0 /\ rot.angle % 360 = 0)
       => (rot.file = rot.before /\ rot.rotation = 0)

\* a second run that found nothing to rotate in a file the first run had
\* flattened and rotated
SecondRunOnNormalizedFile ==
    /\ rot.pc = "finished"
    /\ rot.pass = 2
    /\ rot.ai = "ok" /\ rot.angle = 0 /\ rot.conf = 100
    /\ rot.before = [meta |-> 0, content |-> 0, rewrites |-> 2]
    /\ rot.file = rot.before

(* ---------------------------- order of the passes ---------------------- *)
StageIndex == [s \in {StageOrder[i] : i \in 1..Len(StageOrder)} |->
                 CHOOSE i \in 1..Len(StageOrder) : StageOrder[i] = s]
EarlierStages == [s \in ExtractionStages |-> StagesBefore(s)]
Invoked(r) == {run[r].invoked[i] : i \in 1..Len(run[r].invoked)}

\* C16: the AI stages a run has invoked are in the order rotation, fields,
\* classification, balloons, revisions, summary, none of them twice and
\* none before the one before it was invoked and had returned; the run
\* commits "unapproved" only after the summary stage, and the rename step
\* runs only after that commit.
StagesInvokedInOrder ==
    \A r \in Runs :
       LET inv == run[r].invoked IN
       /\ \A i, j \in 1..Len(inv) : i < j => StageIndex[inv[i]] < StageIndex[inv[j]]
       /\ \A s \in Invoked(r) \cap ExtractionStages : EarlierStages[s] \subseteq Invoked(r)
       /\ run[r].pc \in ExtractionStages => EarlierStages[run[r].pc] \subseteq Invoked(r)
       /\ run[r].lastWrite = "unapproved"
             => (ExtractionStages \subseteq Invoked(r) /\ run[r].pc \in {"rename", "returned"})
       /\ run[r].pc \in {"rename", "returned"} => run[r].lastWrite = "unapproved"

\* a run that has invoked all six stages and has returned from the rename
RunReturnedAfterAllStages ==
    \E r \in Runs : /\ run[r].pc = "returned"
                    /\ run[r].invoked = StageOrder
                    /\ run[r].d \in rows
                    /\ status[run[r].d] = "unapproved"
                    /\ pdf_filename[run[r].d] # UuidName

(* ---------------------------- malformed responses ---------------------- *)
\* C17 as stated: an unparseable response fails the run in the rotation,
\* field and classification stage, and does not fail it in the balloon,
\* revision and summary stage.
MalformedFatalInEarlyStagesOnly ==
    \A r \in Runs :
       /\ run[r].malformedAt \in {"fields", "classification"} => run[r].pc = "raised"
       /\ run[r].malformedAt \in {"balloons", "revisions", "summary"}
             => run[r].failedAt # run[r].malformedAt

\* C17 amended: an unparseable response in any of the five extraction
\* stages ends the run: that stage is the last one invoked and the run
\* commits "failed"; no outcome of the rotation stage ends the run.
MalformedFatalInEveryExtractionStage ==
    \A r \in Runs :
       /\ run[r].malformedAt \in ExtractionStages
             => /\ run[r].pc = "raised"
                /\ run[r].failedAt = run[r].malformedAt
                /\ run[r].invoked[Len(run[r].invoked)] = run[r].malformedAt
                /\ run[r].lastWrite = "failed"
       /\ run[r].failedAt = "rotation" => run[r].failKind = "rowgone"

\* a run ended by an unparseable response of the balloon stage
RunFailedOnMalformedBalloons ==
    \E r \in Runs : /\ run[r].pc = "raised"
                    /\ run[r].malformedAt = "balloons"
                    /\ run[r].invoked = <<"rotation", "fields", "classification", "balloons">>
                    /\ run[r].d \in rows
                    /\ status[run[r].d] = "failed"

(* ---------------------------- the rename step -------------------------- *)
\* the stored pdf of the row and its thumbnail are on disk under the names
\* the row holds, and the thumbnail's name has the stem of the pdf's name
PairOnDisk(d) ==
    /\ pdf_filename[d] \in files
    /\ thumbnail_path[d] \in thumbs
    /\ thumbnail_path[d] = ThumbName(pdf_filename[d], page_number(d))

\* C20: a rename step that starts with the pdf and its thumbnail on disk
\* under the names the row holds ends with both on disk under the names
\* the row holds then: both under the new stem or both under the old one.
RenameKeepsPairTogether ==
    [][\A r \in Runs :
          LET d == run[r].d IN
          (/\ run[r].pc = "rename"
           /\ run'[r].pc = "returned"
           /\ d \in rows
           /\ PairOnDisk(d))
             => PairOnDisk(d)']_vars

ExistingTargetSkipsRename ==
    [][\A r \in Runs :
          LET d == run[r].d
              new == generate_drawing_filename(classification[d]) IN
          (/\ run[r].pc = "rename"
           /\ run'[r].pc # "rename"
           /\ d \in rows
           /\ pdf_filename[d] # new
           /\ new \in files)
             => /\ files' = files
                /\ thumbs' = thumbs
                /\ pdf_filename' = pdf_filename
                /\ thumbnail_path' = thumbnail_path]_vars

\* a run returned with its own file still under the old name, because the
\* canonical name belonged to the file of another upload
RenameSkippedForExistingTarget ==
    \E r \in Runs :
       LET d == run[r].d
           new == generate_drawing_filename(classification[d]) IN
       /\ run[r].pc = "returned"
       /\ d \in rows
       /\ pdf_filename[d] = UuidName
       /\ UuidName \in files
       /\ new \in files

(* ---------------------------- naming functions ------------------------ *)
\* Texts are sequences of characters. A character is a one-character
\* string, or the name of a character that has no printable form:
\* NUL, SOH, US are U+0000, U+0001, U+001F; DEL is U+007F.
C0Controls == {"NUL", "SOH", "US"}
ControlChars == C0Controls \cup {"DEL"}
ReservedChars == {"<", ">", ":", "\"", "/", "\\", "|", "?", "*"}

\* sanitize_filename line 548: invalid_chars = [<>:"/\\|?*\x00-\x1f]
invalid_chars == ReservedChars \cup C0Controls

\* None, and the texts the callers pass
None == <<"None">>
Falsy(text) == text = None \/ text = <<>>
TextsOver(A, n) == UNION {[1..k -> A] : k \in 0..n}
NameChars == {"a", "_", "<", "/", "SOH", "DEL"}

\* line 551: re.sub(r"_+", "_", ...)
RECURSIVE Collapse(_)
Collapse(t) ==
    IF Len(t) < 2 THEN t
    ELSE IF t[1] = "_" /\ t[2] = "_" THEN Collapse(Tail(t))
         ELSE <<t[1]>> \o Collapse(Tail(t))

\* line 553: .strip("_")
RECURSIVE LStrip(_)
LStrip(t) == IF t # <<>> /\ t[1] = "_" THEN LStrip(Tail(t)) ELSE t
RECURSIVE RStrip(_)
RStrip(t) ==
    IF t # <<>> /\ t[Len(t)] = "_" THEN RStrip(SubSeq(t, 1, Len(t) - 1)) ELSE t

\* a sanitize_filename whose pattern has lost the path separators
sanitize_filename_KeepsSeparators(text) ==
    LET replaced == [i \in 1..Len(text) |->
                        IF text[i] \in invalid_chars \ {"/", "\\"} THEN "_" ELSE text[i]]
        stripped == RStrip(LStrip(Collapse(replaced))) IN
    IF stripped = <<>> THEN <<"u", "n", "k", "n", "o", "w", "n">> ELSE stripped

\* FileManager.sanitize_filename lines 537-557
sanitize_filename(text) ==
    LET replaced == [i \in 1..Len(text) |->
                        IF text[i] \in invalid_chars THEN "_" ELSE text[i]]
        stripped == RStrip(LStrip(Collapse(replaced))) IN
    IF stripped = <<>> THEN <<"u", "n", "k", "n", "o", "w", "n">> ELSE stripped

\* line 581: strftime("%Y%m%d%H%M%S"), digits only (here the last two)
Timestamps == {<<"0", "0">>, <<"5", "9">>}
strftime(ts) == ts

\* the defaults of lines 584, 587, 590: "未分類", "図番不明", "不明"
DefaultClassification == <<"mi", "bun", "rui">>
DefaultDrawingNumber == <<"zu", "ban", "fu", "mei">>
DefaultCreatedBy == <<"fu", "mei">>

\* FileManager.generate_drawing_filename lines 559-595, character by character
DrawingFilename(ts, cls, num, by) ==
    strftime(ts)
      \o <<"_">> \o sanitize_filename(IF Falsy(cls) THEN DefaultClassification ELSE cls)
      \o <<"_">> \o sanitize_filename(IF Falsy(num) THEN DefaultDrawingNumber ELSE num)
      \o <<"_">> \o sanitize_filename(IF Falsy(by) THEN DefaultCreatedBy ELSE by)
      \o <<".", "p", "d", "f">>

\* str.upper() on the letters that occur
Upper(c) == CASE c = "n" -> "N" [] c = "a" -> "A" [] c = "t" -> "T" [] OTHER -> c

\* line 105: the shortest value that is corrected
MinCorrectedLen == 9

\* a correction that does not look at the length of the value
correct_drawing_number_AnyLength(value) ==
    IF Falsy(value) THEN value
    ELSE IF /\ Len(value) >= 2 /\ Upper(value[1]) = "N" /\ Upper(value[2]) = "A"
            /\ Len(value) >= 4 /\ Upper(value[4]) # "T"
         THEN [value EXCEPT ![4] = "T"]
         ELSE value

\* _correct_drawing_number lines 87-115
correct_drawing_number(value) ==
    IF Falsy(value) THEN value
    ELSE IF /\ Len(value) >= 2 /\ Upper(value[1]) = "N" /\ Upper(value[2]) = "A"
            /\ Len(value) >= MinCorrectedLen
            /\ Len(value) >= 4 /\ Upper(value[4]) # "T"
         THEN [value EXCEPT ![4] = "T"]
         ELSE value

\* field names: "図番" (the drawing number) and another one
FieldNames == {"zuban", "hinmei"}

\* _run_analysis lines 457-472: the field_value given to ExtractedField
PersistedValue(name, value) ==
    IF name = "zuban" /\ ~Falsy(value) THEN correct_drawing_number(value) ELSE value

\* extracted values: up to four characters followed by some digits
NumberChars == {"N", "A", "n", "a", "T", "t", "X"}
RECURSIVE Pad(_)
Pad(k) == IF k = 0 THEN <<>> ELSE <<"0">> \o Pad(k - 1)
FieldValues ==
    {None} \cup TextsOver(NumberChars, 3)
           \cup {h \o Pad(k) : h \in [1..4 -> NumberChars], k \in 0..MaxPad}

\* one call of generate_drawing_filename
FnGenerate(ts, cls, num, by) ==
    /\ fn.op = "none"
    /\ fn' = [op |-> "generate", ts |-> ts, cls |-> cls, num |-> num, by |-> by,
              out |-> DrawingFilename(ts, cls, num, by)]
    /\ UNCHANGED <<dbvars, fsvars, run, nruns, up, requests, call, rot, lock, chan>>

\* one extracted field written by _run_analysis
FnSaveField(name, value) ==
    /\ fn.op = "none"
    /\ fn' = [op |-> "save_field", name |-> name, value |-> value,
              out |-> PersistedValue(name, value)]
    /\ UNCHANGED <<dbvars, fsvars, run, nruns, up, requests, call, rot, lock, chan>>

\* the caller has taken the result
FnReturn ==
    /\ fn.op # "none"
    /\ fn' = FnIdle
    /\ UNCHANGED <<dbvars, fsvars, run, nruns, up, requests, call, rot, lock, chan>>

NextNames ==
    \/ /\ fn.op = "none"
       /\ \E ts \in Timestamps :
          \E cls \in TextsOver(NameChars, 1) \cup {None} :
          \E num \in TextsOver(NameChars, MaxTextLen) \cup {None} :
          \E by \in TextsOver(NameChars, 1) \cup {None} : FnGenerate(ts, cls, num, by)
    \/ /\ fn.op = "none"
       /\ \E name \in FieldNames : \E value \in FieldValues : FnSaveField(name, value)
    \/ FnReturn

SpecNames == Init /\ [][NextNames]_vars

\* C21 as stated: the generated filename holds none of < > : " / \ | ? *
\* and no control character.
FilenameFreeOfReservedAndControlChars ==
    fn.op = "generate" =>
        \A i \in 1..Len(fn.out) : fn.out[i] \notin ReservedChars \cup ControlChars

\* C21: the generated filename holds none of < > : " / \ | ? * and no
\* control character of U+0000..U+001F, ends in ".pdf", and each of its
\* three sanitized parts is non-empty.
FilenameFreeOfInvalidChars ==
    fn.op = "generate" =>
        /\ \A i \in 1..Len(fn.out) : fn.out[i] \notin invalid_chars
        /\ SubSeq(fn.out, Len(fn.out) - 3, Len(fn.out)) = <<".", "p", "d", "f">>
        /\ Len(fn.out) >= Len(fn.ts) + 3 + 3 + 4

\* a filename generated from a classification and an author made only of
\* illegal characters and a drawing number holding one
FilenameFromIllegalInputs ==
    /\ fn.op = "generate"
    /\ fn.cls = <<"<">>
    /\ fn.by = <<"/">>
    /\ fn.num = <<"a", "/", "a">>
    /\ fn.out = <<"0", "0", "_", "u", "n", "k", "n", "o", "w", "n", "_", "a", "_", "a",
                  "_", "u", "n", "k", "n", "o", "w", "n", ".", "p", "d", "f">>

\* C22 as stated: a drawing number that starts with "NA", has at least 9
\* characters and a 4th character other than "T" is persisted with the 4th
\* character replaced by "T"; every other value is persisted as extracted.
FourthCharCoercedAfterNA ==
    fn.op = "save_field" =>
        IF /\ fn.name = "zuban" /\ fn.value # None /\ Len(fn.value) >= 9
           /\ fn.value[1] = "N" /\ fn.value[2] = "A" /\ fn.value[4] # "T"
        THEN fn.out = [fn.value EXCEPT ![4] = "T"]
        ELSE fn.out = fn.value

\* C22: the same with the prefix and the 4th character compared without
\* regard to case: prefix "NA", "Na", "nA" or "na", 4th character neither
\* "T" nor "t".
FourthCharCoercedAfterNAAnyCase ==
    fn.op = "save_field" =>
        IF /\ fn.name = "zuban" /\ fn.value # None /\ Len(fn.value) >= 9
           /\ fn.value[1] \in {"N", "n"} /\ fn.value[2] \in {"A", "a"}
           /\ fn.value[4] \notin {"T", "t"}
        THEN fn.out = [fn.value EXCEPT ![4] = "T"]
        ELSE fn.out = fn.value

\* the fixture of the specification: "NAX00000" of 9 characters and more
DrawingNumberCorrected ==
    /\ fn.op = "save_field"
    /\ fn.name = "zuban"
    /\ fn.value = <<"N", "A", "X", "X", "0", "0", "0", "0", "0">>
    /\ fn.out = <<"N", "A", "X", "T", "0", "0", "0", "0", "0">>

(* ---------------------------- results of failed runs ------------------- *)
\* C23: a Drawing whose latest run ended with status failed holds no
\* ExtractedField, Balloon or Revision row of that run, also when the run
\* failed while it was writing its results.
FailedRunLeavesNoChildren ==
    \A r \in Runs :
       LET d == run[r].d IN
       (/\ run[r].pc = "raised"
        /\ run[r].lastWrite = "failed"
        /\ d \in rows
        /\ status[d] = "failed")
          => children[d] \cap RowsOf(run[r].id) = {}

(* ---------------------------- the response of the upload --------------- *)
\* upload_drawing lines 100-141: the HTTP status the caller of the upload
\* gets once create_drawing has ended. create_drawing returns the Drawings
\* (200) or raises DrawingServiceException (400, line 128); it lets no
\* AWSAuthenticationError through, so the 401 of lines 119-127 does not occur.
upload_drawing(pc) ==
    CASE pc = "returned" -> 200
      [] pc = "raised" -> 400
      [] OTHER -> 0

\* C24: when the run of a page of the upload has failed because of an
\* authentication failure, the upload ends there and its caller gets the
\* authentication error (401, AWS_AUTH_EXPIRED).
AuthFailureReachesCaller ==
    [][(/\ up.pc = "wait"
        /\ run[UploadThread].pc = "raised"
        /\ run[UploadThread].authAt # "none"
        /\ up'.pc # up.pc)
          => upload_drawing(up'.pc) = 401]_vars

(* ---------------------------- the progress channel -------------------- *)
\* the condition of the channel while the upload runs
SetChannel(c) ==
    /\ up.pc = "idle"
    /\ chan = "ok"
    /\ c # "ok"
    /\ chan' = c
    /\ UNCHANGED <<dbvars, fsvars, run, nruns, up, requests, call, rot, fn, lock>>

NextProgress ==
    \/ NextUpload
    \/ \E c \in ChannelStates : SetChannel(c)

SpecProgress == Init /\ [][NextProgress]_vars

\* C25: no run fails because of a progress message, whatever the condition
\* of the channel, and with a broken channel a run that has returned has
\* written "unapproved" and its results like any other.
PublishNeverFailsRun ==
    \A r \in Runs :
       /\ run[r].failKind # "publish"
       /\ (run[r].pc \in {"rename", "returned"} /\ run[r].d \in rows)
             => /\ status[run[r].d] = "unapproved"
                /\ children[run[r].d] = RowsOf(run[r].id)

\* a run returned with its results while the emit of every message failed
RunReturnedWithBrokenChannel ==
    \E r \in Runs :
       /\ chan = "emit_fails"
       /\ run[r].pc = "returned"
       /\ run[r].d \in rows
       /\ status[run[r].d] = "unapproved"
       /\ children[run[r].d] = RowsOf(run[r].id)
       /\ Len(run[r].invoked) = 6

(* ---------------------------- the thumbnail step ---------------------- *)
\* C26: when generate_thumbnail raises, the run goes on to the field
\* extraction with the status and the thumbnail_path of the Drawing as they
\* were.
ThumbnailFailureGoesOn ==
    [][\A r \in Runs :
          LET d == run[r].d IN
          (/\ run[r].pc = "thumbnail"
           /\ run'[r].pc # "thumbnail"
           /\ d \in rows
           /\ thumbs' = thumbs)
             => /\ run'[r].pc = "fields"
                /\ thumbnail_path' = thumbnail_path
                /\ status' = status]_vars

\* a run returned with status unapproved and all stages invoked although no
\* thumbnail of its page was ever generated
RunReturnedWithoutThumbnail ==
    \E r \in Runs :
       LET d == run[r].d IN
       /\ run[r].pc = "returned"
       /\ d \in rows
       /\ status[d] = "unapproved"
       /\ run[r].invoked = <<"rotation", "fields", "classification", "balloons",
                              "revisions", "summary">>
       /\ thumbnail_path[d] = PendingThumb
       /\ thumbs = {}

(* ---------------------------- the undone upload ------------------------ *)
\* C30: when the connection test of the AI service fails, create_drawing
\* raises with the upload undone: no row of the upload is left, the saved
\* pdf is gone from the drawings directory, and no run was started.
FailedInitUndoesUpload ==
    [][(up.pc = "init" /\ up'.pc = "raised")
          => /\ rows' \cap (1..up.pages) = {}
             /\ UuidName \notin files'
             /\ run'[UploadThread] = NoRun
             /\ nruns' = nruns]_vars

(* ---------------------------- LockManager ------------------------------ *)
\* A Lock row is [id, drawing, user, expires]. The handlers of /acquire and
\* /release are coroutines of the one event loop: what they do between two
\* awaits is one step. lock.co[u] is the handler that serves user u.

\* a clean-up that also deletes the lock that expires at this instant
Expired_AtExpiry(row, now) == row.expires <= now

\* cleanup_expired_locks lines 147-153: Lock.expires_at < now
Expired(row, now) == row.expires < now

\* cleanup_expired_locks lines 140-159: the rows left in the table
cleanup_expired_locks == {row \in lock.rows : ~Expired(row, lock.now)}

\* check_lock lines 129-138: the rows of the drawing after the clean-up
\* (the query takes the first of them)
check_lock(d) == {row \in cleanup_expired_locks : row.drawing = d}

\* primary key of a new row
NewId(table) ==
    LET ids == {row.id : row \in table} IN
    CHOOSE i \in 1..(Cardinality(table) + 1) : i \notin ids /\ \A j \in 1..(i - 1) : j \in ids

\* an acquire_lock that adds a row also when the caller holds the lock
AcquireDecision_AddsRow(existing, user) ==
    IF existing.user = user THEN "create" ELSE "refuse"

\* acquire_lock lines 56-68: what is done when the drawing has a lock
AcquireDecision(existing, user) ==
    IF existing.user = user THEN "renew" ELSE "refuse"

\* a release_lock that does not compare the user
ReleaseDecision_AnyUser(existing, user) == "delete"

\* release_lock lines 103-109: what is done when the drawing has a lock
ReleaseDecision(existing, user) ==
    IF existing.user # user THEN "refuse" ELSE "delete"

NewLock(table, d, u) ==
    [id |-> NewId(table), drawing |-> d, user |-> u, expires |-> lock.now + lock_timeout]

\* acquire_lock lines 39-76, up to its first await
Acquire(u, d) ==
    LET live == cleanup_expired_locks
        found == check_lock(d) IN
    /\ lock.co[u].pc = "idle"
    /\ IF found = {}
       THEN lock' = [lock EXCEPT !.rows = live \cup {NewLock(live, d, u)},
                                 !.co[u] = [pc |-> "notify", op |-> "acquire", d |-> d,
                                            result |-> <<"Lock", u>>]]
       ELSE \E existing \in found :
               LET todo == AcquireDecision(existing, u) IN
               lock' = [lock EXCEPT
                          !.rows = IF todo = "renew"
                                   THEN (live \ {existing}) \cup
                                        {[existing EXCEPT !.expires = lock.now + lock_timeout]}
                                   ELSE IF todo = "create"
                                   THEN live \cup {NewLock(live, d, u)}
                                   ELSE live,
                          !.co[u] = [pc |-> "done", op |-> "acquire", d |-> d,
                                     result |-> IF todo = "refuse"
                                                THEN <<"LockException", existing.user>>
                                                ELSE <<"Lock", u>>]]
    /\ UNCHANGED <<dbvars, fsvars, run, nruns, up, requests, call, rot, fn, chan>>

\* release_lock lines 84-111, up to its first await
Release(u, d) ==
    LET live == cleanup_expired_locks
        found == check_lock(d) IN
    /\ lock.co[u].pc = "idle"
    /\ IF found = {}
       THEN lock' = [lock EXCEPT !.rows = live,
                                 !.co[u] = [pc |-> "done", op |-> "release", d |-> d,
                                            result |-> <<"True">>]]
       ELSE \E existing \in found :
               IF ReleaseDecision(existing, u) = "refuse"
               THEN lock' = [lock EXCEPT
                               !.rows = live,
                               !.co[u] = [pc |-> "done", op |-> "release", d |-> d,
                                          result |-> <<"LockException", existing.user>>]]
               ELSE lock' = [lock EXCEPT
                               !.rows = live \ {existing},
                               !.co[u] = [pc |-> "notify", op |-> "release", d |-> d,
                                          result |-> <<"True">>]]
    /\ UNCHANGED <<dbvars, fsvars, run, nruns, up, requests, call, rot, fn, chan>>

\* lines 78-82 and 113-117: the await of the WebSocket notification ends and
\* the coroutine returns
Notified(u) ==
    /\ lock.co[u].pc = "notify"
    /\ lock' = [lock EXCEPT !.co[u].pc = "done"]
    /\ UNCHANGED <<dbvars, fsvars, run, nruns, up, requests, call, rot, fn, chan>>

\* GET /{drawing_id} (locks.py 81-98): check_lock and its answer
Check(u, d) ==
    LET found == check_lock(d) IN
    /\ lock.co[u].pc = "idle"
    /\ \E answer \in IF found = {} THEN {<<"None">>}
                      ELSE {<<"Lock", row.user>> : row \in found} :
          lock' = [lock EXCEPT !.rows = cleanup_expired_locks,
                               !.co[u] = [pc |-> "done", op |-> "check", d |-> d,
                                          result |-> answer]]
    /\ UNCHANGED <<dbvars, fsvars, run, nruns, up, requests, call, rot, fn, chan>>

\* the handler has answered
LockReturn(u) ==
    /\ lock.co[u].pc = "done"
    /\ lock' = [lock EXCEPT !.co[u] = CoIdle]
    /\ UNCHANGED <<dbvars, fsvars, run, nruns, up, requests, call, rot, fn, chan>>

\* datetime.utcnow() moves on
Tick ==
    /\ lock.now + TickSeconds <= MaxTime
    /\ lock' = [lock EXCEPT !.now = lock.now + TickSeconds]
    /\ UNCHANGED <<dbvars, fsvars, run, nruns, up, requests, call, rot, fn, chan>>

NextLocks ==
    \/ \E u \in Users : \E d \in LockDrawings : Acquire(u, d)
    \/ \E u \in Users : \E d \in LockDrawings : Release(u, d)
    \/ \E u \in Users : \E d \in LockDrawings : Check(u, d)
    \/ \E u \in Users : Notified(u)
    \/ \E u \in Users : LockReturn(u)
    \/ Tick

SpecLocks == Init /\ [][NextLocks]_vars

\* the unexpired locks of a drawing held by another user than u
HeldByOther(d, u) ==
    {row \in lock.rows : row.drawing = d /\ row.user # u /\ row.expires >= lock.now}

\* user u's handler begins op on drawing d in this step
Begins(u, op, d) ==
    /\ lock.co[u].pc = "idle"
    /\ lock'.co[u].pc # "idle"
    /\ lock'.co[u].op = op
    /\ lock'.co[u].d = d

\* the rows of drawing d in a table
RowsOfDrawing(table, d) == {row \in table : row.drawing = d}

\* C27: at no time do rows of two different users lock the same drawing,
\* and an acquire_lock for a drawing on which another user holds an
\* unexpired lock ends with a LockException that names this user and leaves
\* the user's lock in the table.
LocksAreExclusive ==
    [][/\ \A d \in LockDrawings : \A r1, r2 \in RowsOfDrawing(lock'.rows, d) :
             r1.user = r2.user
       /\ \A u \in Users : \A d \in LockDrawings :
             Begins(u, "acquire", d)
                => \A row \in HeldByOther(d, u) :
                      /\ lock'.co[u].result = <<"LockException", row.user>>
                      /\ row \in lock'.rows]_vars

\* a second user was refused the lock that the first one holds
SecondUserRefused ==
    \E u, v \in Users : \E d \in LockDrawings :
       /\ u # v
       /\ lock.co[u] = [pc |-> "done", op |-> "acquire", d |-> d,
                        result |-> <<"LockException", v>>]
       /\ \E row \in lock.rows : row.drawing = d /\ row.user = v /\ row.expires >= lock.now
       /\ \A row \in lock.rows : row.user # u

\* C28: a release_lock by the holder, or when nobody holds the lock,
\* returns True and leaves no lock on the drawing; a release_lock while
\* another user holds an unexpired lock raises LockException and leaves the
\* locks of the drawing unchanged; with no unexpired lock on the drawing,
\* check_lock answers none and acquire_lock makes the caller the holder.
ReleaseFreesTheLock ==
    [][\A u \in Users : \A d \in LockDrawings :
          /\ Begins(u, "release", d)
                => IF HeldByOther(d, u) # {}
                   THEN /\ \E row \in HeldByOther(d, u) :
                              lock'.co[u].result = <<"LockException", row.user>>
                        /\ RowsOfDrawing(lock'.rows, d) = RowsOfDrawing(lock.rows, d)
                   ELSE /\ lock'.co[u].result = <<"True">>
                        /\ RowsOfDrawing(lock'.rows, d) = {}
          /\ (Begins(u, "check", d) /\ check_lock(d) = {})
                => lock'.co[u].result = <<"None">>
          /\ (Begins(u, "acquire", d) /\ check_lock(d) = {})
                => /\ lock'.co[u].result = <<"Lock", u>>
                   /\ \E row \in lock'.rows : row.drawing = d /\ row.user = u
                   /\ \A row \in RowsOfDrawing(lock'.rows, d) : row.user = u]_vars

\* the first user's release has returned True and the second user holds
\* the lock of the same drawing
LockPassedOn ==
    \E u, v \in Users : \E d \in LockDrawings :
       /\ u # v
       /\ lock.co[u] = [pc |-> "done", op |-> "release", d |-> d, result |-> <<"True">>]
       /\ lock.co[v].op = "acquire"
       /\ lock.co[v].d = d
       /\ lock.co[v].result = <<"Lock", v>>
       /\ \E row \in lock.rows : row.drawing = d /\ row.user = v

\* C29: at most one Lock row exists per drawing at any time; an
\* acquire_lock by the holder of an unexpired lock keeps the row and sets
\* its expiry anew; an acquire_lock that finds an expired lock deletes it
\* and records the caller in one row.
OneLockRowPerDrawing ==
    [][/\ \A d \in LockDrawings : Cardinality(RowsOfDrawing(lock'.rows, d)) <= 1
       /\ \A u \in Users : \A d \in LockDrawings :
             Begins(u, "acquire", d)
                => \A row \in RowsOfDrawing(lock.rows, d) :
                      /\ (row.user = u /\ ~Expired(row, lock.now))
                            => RowsOfDrawing(lock'.rows, d) =
                                  {[row EXCEPT !.expires = lock.now + lock_timeout]}
                      /\ Expired(row, lock.now)
                            => /\ row \notin lock'.rows
                               /\ \A new \in RowsOfDrawing(lock'.rows, d) :
                                     new.user = u /\ new.expires = lock.now + lock_timeout]_vars

\* two acquire_lock coroutines interleaved at the await of the first: the
\* first is suspended in its notification, the second was refused, and the
\* drawing has one row; meanwhile the holder's lock on another drawing was
\* renewed after the clock had moved
InterleavedAcquires ==
    \E u, v \in Users : \E d \in LockDrawings :
       /\ u # v
       /\ lock.co[u] = [pc |-> "notify", op |-> "acquire", d |-> d, result |-> <<"Lock", u>>]
       /\ lock.co[v] = [pc |-> "done", op |-> "acquire", d |-> d,
                        result |-> <<"LockException", u>>]
       /\ Cardinality(RowsOfDrawing(lock.rows, d)) = 1
       /\ lock.now > lock_timeout

====
